---------------------------- MODULE Spec2Model ----------------------------
(***************************************************************************)
(* Model of crates/monad-evm/src/lib.rs: the MonadEvm session wrapper      *)
(* (impl alloy_evm::Evm) and MonadEvmFactory (impl alloy_evm::EvmFactory). *)
(*                                                                         *)
(* The inner engine (monad_revm / revm) lives outside this crate.  Its     *)
(* entry points are modelled by what the wrapper can observe of them:      *)
(* which entry point is invoked, on which engine value, with which         *)
(* arguments, and what it returns; the outcome itself and the engine's     *)
(* effect on the backend are left nondeterministic.  The configuration     *)
(* conversions MonadCfgEnv::from and MonadCfgEnv::into_inner are likewise  *)
(* outside this crate and are kept as constructor terms.                   *)
(***************************************************************************)
EXTENDS Integers, Sequences, FiniteSets, TLC

\* ------------------------------------------------------------------ bounds
MaxDb == 1
MaxHandle == 1

\* ------------------------------------------------------------- value sets
\* contents of a state backend (DB)
DBs == 0..MaxDb
\* revm::context::BlockEnv
BlockEnvs == [number : {0, 1}]
\* monad_revm::MonadSpecId
SpecIds == {"SPEC_A", "SPEC_B"}
\* CfgEnv<MonadSpecId>: the generic configuration
CfgEnvs == [chain_id : {1}, spec : SpecIds]
\* alloy_evm::EvmEnv<MonadSpecId>
EvmEnvs == [block_env : BlockEnvs, cfg_env : CfgEnvs]
\* revm::inspector::NoOpInspector {}
NoOpInspector == [kind |-> "NoOp", id |-> 0]
\* inspectors a caller may supply (the no-op one included)
Inspectors == {NoOpInspector} \cup [kind : {"Handle"}, id : 1..MaxHandle]
\* TxEnv
Txs == {"tx1"}
\* Address / Bytes arguments of a system call
SysArgs == [caller : {"addr0"}, contract : {"addr2"}, data : {"0x"}]

\* MonadCfgEnv::from(cfg): the chain-specific configuration built from cfg
MonadCfgEnv_from(cfg) == [MonadCfgEnv |-> cfg]
MonadCfgEnvs == {MonadCfgEnv_from(c) : c \in CfgEnvs}
\* MonadCfgEnv::into_inner(monad_cfg)
into_inner(monad_cfg) == [into_inner |-> monad_cfg]
\* the protocol identifier a MonadCfgEnv carries (self.cfg.<field> access)
cfg_spec(monad_cfg) == monad_cfg.MonadCfgEnv.spec
\* MonadPrecompiles::new_with_spec(spec_id)
new_with_spec(spec_id) == [precompiles_for |-> spec_id]
PrecompileSets == {new_with_spec(s) : s \in SpecIds}

\* Result<ResultAndState<HaltReason>, EVMError<DB::Error>>
EngineResults ==
    {[tag |-> "Ok", val |-> "Success"],
     [tag |-> "Ok", val |-> "Halt"],
     [tag |-> "Err", val |-> "Database"]}

NoSession == "none"

VARIABLES
    evm,        \* the MonadEvm under operation: [inner, inspect], or NoSession
    twin,       \* right after a factory call: what the other factory path builds
    phase,      \* "none" | "live" | "finished"
    lastOp,     \* the last operation called: [name, arg]
    prevOp,     \* the operation before it (arguments kept for the two setters)
    calls,      \* engine entry points invoked by the last operation
    ret,        \* what the last operation returned
    made        \* since the factory call: precompile set then selected, writes through
                \* components_mut / ctx_mut, last set_inspector_enabled argument

vars == <<evm, twin, phase, lastOp, prevOp, calls, ret, made>>

Unit == [tag |-> "Unit"]
NoCall == [name |-> "none", arg |-> Unit]
NeverSet == [called |-> FALSE, enabled |-> FALSE]

\* ------------------------------------------------------------ inner engine
\* Context::monad().with_db(db).with_block(block).with_cfg(cfg)
\*     .build_monad_with_inspector(inspector).with_precompiles(precompiles)
build_monad(db, block, cfg, inspector, precompiles) ==
    [ctx |-> [block |-> block, cfg |-> cfg,
              journaled_state |-> [database |-> db]],
     inspector |-> inspector,
     precompiles |-> precompiles]

\* One run of an engine entry point on the engine value `inner`: the engine
\* may rewrite the backend, may re-key the precompile set to the config's
\* protocol identifier, and returns any result.
EngineRun(inner, entry, args) ==
    { [inner |-> [inner EXCEPT !.ctx.journaled_state.database = d,
                               !.precompiles = p],
       ret   |-> r,
       calls |-> <<[entry |-> entry, args |-> args, returned |-> r,
                    db          |-> inner.ctx.journaled_state.database,
                    inspector   |-> inner.inspector,
                    precompiles |-> inner.precompiles]>>] :
        d \in DBs,
        p \in {inner.precompiles, new_with_spec(cfg_spec(inner.ctx.cfg))},
        r \in EngineResults }

\* InspectEvm::inspect_tx
inspect_tx(inner, tx) == EngineRun(inner, "inspect_tx", tx)
\* ExecuteEvm::transact
transact(inner, tx) == EngineRun(inner, "transact", tx)
\* SystemCallEvm::system_call_with_caller
system_call_with_caller(inner, caller, contract, data) ==
    EngineRun(inner, "system_call_with_caller",
              [caller |-> caller, contract |-> contract, data |-> data])

\* ----------------------------------------------------------------- wrapper
\* Evm::block
block(self) == self.inner.ctx.block

\* transact_raw with the test on the flag inverted
transact_raw_inverted(self, tx) ==
    IF self.inspect
    THEN transact(self.inner, tx)
    ELSE inspect_tx(self.inner, tx)

\* transact_raw that answers an error of the instrumented entry point by
\* running the plain one
transact_raw_fallback(self, tx) ==
    IF self.inspect
    THEN UNION { IF o.ret.tag = "Err"
                 THEN { [p EXCEPT !.calls = o.calls \o p.calls] :
                          p \in transact(o.inner, tx) }
                 ELSE {o} : o \in inspect_tx(self.inner, tx) }
    ELSE transact(self.inner, tx)

\* Evm::transact_raw
transact_raw(self, tx) ==
    IF self.inspect
    THEN inspect_tx(self.inner, tx)
    ELSE transact(self.inner, tx)

\* transact_system_call that honours the flag like transact_raw does
transact_system_call_inspecting(self, caller, contract, data) ==
    IF self.inspect
    THEN EngineRun(self.inner, "inspect_system_call_with_caller",
                   [caller |-> caller, contract |-> contract, data |-> data])
    ELSE system_call_with_caller(self.inner, caller, contract, data)

\* Evm::transact_system_call
transact_system_call(self, caller, contract, data) ==
    system_call_with_caller(self.inner, caller, contract, data)

\* Evm::finish
finish(self) ==
    [tag |-> "Finish",
     db  |-> self.inner.ctx.journaled_state.database,
     env |-> [block_env |-> self.inner.ctx.block,
              cfg_env   |-> into_inner(self.inner.ctx.cfg)]]

\* set_inspector_enabled that flips the flag when asked to enable
set_inspector_enabled_toggle(self, enabled) ==
    [self EXCEPT !.inspect = IF enabled THEN ~self.inspect ELSE FALSE]

\* set_inspector_enabled that drops the inspector when disabling
set_inspector_enabled_reset(self, enabled) ==
    [self EXCEPT !.inspect = enabled,
                 !.inner.inspector = IF enabled THEN @ ELSE NoOpInspector]

\* Evm::set_inspector_enabled
set_inspector_enabled(self, enabled) == [self EXCEPT !.inspect = enabled]

\* Evm::components
components(self) ==
    [tag |-> "Components",
     db          |-> self.inner.ctx.journaled_state.database,
     inspector   |-> self.inner.inspector,
     precompiles |-> self.inner.precompiles]

\* components_mut whose first reference is to a copy of the database
components_mut_detached(self, field, value) ==
    CASE field = "db" -> self
      [] field = "inspector" ->
           [self EXCEPT !.inner.inspector = value]
      [] field = "precompiles" ->
           [self EXCEPT !.inner.precompiles = value]

\* Evm::components_mut, followed by the caller's write through one of the
\* three references it returns
components_mut(self, field, value) ==
    CASE field = "db" ->
           [self EXCEPT !.inner.ctx.journaled_state.database = value]
      [] field = "inspector" ->
           [self EXCEPT !.inner.inspector = value]
      [] field = "precompiles" ->
           [self EXCEPT !.inner.precompiles = value]

\* MonadEvm::ctx_mut, followed by the caller's write to one field of the
\* context it returns
ctx_mut(self, field, value) ==
    CASE field = "block" ->
           [self EXCEPT !.inner.ctx.block = value]
      [] field = "cfg" ->
           [self EXCEPT !.inner.ctx.cfg = value]
      [] field = "db" ->
           [self EXCEPT !.inner.ctx.journaled_state.database = value]

\* ----------------------------------------------------------------- factory
\* create_evm that selects the precompiles of a fixed protocol identifier
create_evm_fixed_spec(db, input) ==
    LET monad_cfg == MonadCfgEnv_from(input.cfg_env)
    IN  [inner |-> build_monad(db, input.block_env, monad_cfg, NoOpInspector,
                               new_with_spec("SPEC_A")),
         inspect |-> FALSE]

\* EvmFactory::create_evm
create_evm(db, input) ==
    LET spec_id == input.cfg_env.spec
        monad_cfg == MonadCfgEnv_from(input.cfg_env)
    IN  [inner |-> build_monad(db, input.block_env, monad_cfg, NoOpInspector,
                               new_with_spec(spec_id)),
         inspect |-> FALSE]

\* create_evm_with_inspector that forgets to bind the block environment
create_evm_with_inspector_no_block(db, input, inspector) ==
    LET spec_id == input.cfg_env.spec
        monad_cfg == MonadCfgEnv_from(input.cfg_env)
    IN  [inner |-> build_monad(db, [number |-> 0], monad_cfg, inspector,
                               new_with_spec(spec_id)),
         inspect |-> TRUE]

\* EvmFactory::create_evm_with_inspector
create_evm_with_inspector(db, input, inspector) ==
    LET spec_id == input.cfg_env.spec
        monad_cfg == MonadCfgEnv_from(input.cfg_env)
    IN  [inner |-> build_monad(db, input.block_env, monad_cfg, inspector,
                               new_with_spec(spec_id)),
         inspect |-> TRUE]

\* ----------------------------------------------------------------- actions
Init ==
    /\ evm = NoSession
    /\ twin = NoSession
    /\ phase = "none"
    /\ lastOp = NoCall
    /\ prevOp = NoCall
    /\ calls = <<>>
    /\ ret = Unit
    /\ made = [precompiles |-> NoSession, written |-> FALSE,
               lastSet |-> NeverSet]

Called(name, arg) ==
    /\ lastOp' = [name |-> name, arg |-> arg]
    /\ prevOp' = IF lastOp.name \in {"set_inspector_enabled", "components_mut"}
                 THEN lastOp
                 ELSE [name |-> lastOp.name, arg |-> Unit]

\* the factory is called on a fresh backend and environment
CreateEvm ==
    /\ phase # "live"
    /\ \E db \in DBs, input \in EvmEnvs, inspector \in Inspectors :
         /\ evm' = create_evm(db, input)
         /\ twin' = create_evm_with_inspector(db, input, inspector)
         /\ made' = [precompiles |-> evm'.inner.precompiles,
                     written |-> FALSE, lastSet |-> NeverSet]
         /\ Called("create_evm",
                   [db |-> db, input |-> input, inspector |-> inspector])
    /\ phase' = "live"
    /\ calls' = <<>>
    /\ ret' = Unit

CreateEvmWithInspector ==
    /\ phase # "live"
    /\ \E db \in DBs, input \in EvmEnvs, inspector \in Inspectors :
         /\ evm' = create_evm_with_inspector(db, input, inspector)
         /\ twin' = create_evm(db, input)
         /\ made' = [precompiles |-> evm'.inner.precompiles,
                     written |-> FALSE, lastSet |-> NeverSet]
         /\ Called("create_evm_with_inspector",
                   [db |-> db, input |-> input, inspector |-> inspector])
    /\ phase' = "live"
    /\ calls' = <<>>
    /\ ret' = Unit

Block ==
    /\ phase = "live"
    /\ ret' = [tag |-> "Block", block |-> block(evm)]
    /\ Called("block", Unit)
    /\ calls' = <<>>
    /\ twin' = NoSession
    /\ UNCHANGED <<evm, phase, made>>

TransactRaw ==
    /\ phase = "live"
    /\ \E tx \in Txs :
         \E o \in transact_raw(evm, tx) :
            /\ evm' = [evm EXCEPT !.inner = o.inner]
            /\ calls' = o.calls
            /\ ret' = o.ret
            /\ Called("transact_raw", [tx |-> tx, inspect |-> evm.inspect])
    /\ twin' = NoSession
    /\ UNCHANGED <<phase, made>>

TransactSystemCall ==
    /\ phase = "live"
    /\ \E a \in SysArgs :
         \E o \in transact_system_call(evm, a.caller, a.contract, a.data) :
            /\ evm' = [evm EXCEPT !.inner = o.inner]
            /\ calls' = o.calls
            /\ ret' = o.ret
            /\ Called("transact_system_call",
                      [sys |-> a, inspect |-> evm.inspect])
    /\ twin' = NoSession
    /\ UNCHANGED <<phase, made>>

Finish ==
    /\ phase = "live"
    /\ ret' = finish(evm)
    /\ evm' = NoSession
    /\ phase' = "finished"
    /\ Called("finish", Unit)
    /\ calls' = <<>>
    /\ twin' = NoSession
    /\ UNCHANGED made

SetInspectorEnabled ==
    /\ phase = "live"
    /\ \E enabled \in BOOLEAN :
         /\ evm' = set_inspector_enabled(evm, enabled)
         /\ made' = [made EXCEPT !.lastSet = [called |-> TRUE, enabled |-> enabled]]
         /\ Called("set_inspector_enabled", [enabled |-> enabled])
    /\ ret' = Unit
    /\ calls' = <<>>
    /\ twin' = NoSession
    /\ UNCHANGED phase

Components ==
    /\ phase = "live"
    /\ ret' = components(evm)
    /\ Called("components", Unit)
    /\ calls' = <<>>
    /\ twin' = NoSession
    /\ UNCHANGED <<evm, phase, made>>

ComponentsMut ==
    /\ phase = "live"
    /\ \E field \in {"db", "inspector", "precompiles"} :
         \E value \in (CASE field = "db" -> DBs
                         [] field = "inspector" -> Inspectors
                         [] field = "precompiles" -> PrecompileSets) :
            /\ evm' = components_mut(evm, field, value)
            /\ Called("components_mut", [field |-> field, value |-> value])
    /\ made' = [made EXCEPT !.written = TRUE]
    /\ ret' = Unit
    /\ calls' = <<>>
    /\ twin' = NoSession
    /\ UNCHANGED phase

CtxMut ==
    /\ phase = "live"
    /\ \E field \in {"block", "cfg", "db"} :
         \E value \in (CASE field = "block" -> BlockEnvs
                         [] field = "cfg" -> MonadCfgEnvs
                         [] field = "db" -> DBs) :
            /\ evm' = ctx_mut(evm, field, value)
            /\ Called("ctx_mut", [field |-> field, value |-> value])
    /\ made' = [made EXCEPT !.written = TRUE]
    /\ ret' = Unit
    /\ calls' = <<>>
    /\ twin' = NoSession
    /\ UNCHANGED phase

Next ==
    \/ CreateEvm
    \/ CreateEvmWithInspector
    \/ Block
    \/ TransactRaw
    \/ TransactSystemCall
    \/ Finish
    \/ SetInspectorEnabled
    \/ Components
    \/ ComponentsMut
    \/ CtxMut

Spec == Init /\ [][Next]_vars

\* ------------------------------------------------------------------ claims
Executes == {"transact_raw", "transact_system_call"}
Creates == {"create_evm", "create_evm_with_inspector"}

\* C1: every transact_raw invokes exactly one engine entry point: inspect_tx
\* if the session's flag is true at the call, transact if it is false.
Thm_C1_DispatchByFlag ==
    lastOp.name = "transact_raw" =>
        /\ Len(calls) = 1
        /\ calls[1].entry =
             IF lastOp.arg.inspect THEN "inspect_tx" ELSE "transact"
        /\ calls[1].args = lastOp.arg.tx

\* a transaction run through inspect_tx on a session built by create_evm
\* whose flag was switched on afterwards
Wit_C1_DispatchByFlag ==
    /\ lastOp.name = "transact_raw"
    /\ lastOp.arg.inspect
    /\ calls[1].entry = "inspect_tx"
    /\ prevOp.name = "set_inspector_enabled"
    /\ evm.inner.inspector = NoOpInspector

\* C4: for the same backend and environment, create_evm and
\* create_evm_with_inspector build the same context (backend, block, config)
\* and the same precompile set, the one of the environment's protocol
\* identifier; they differ in the inspector and in the flag only.
Thm_C4_FactoryPathsAgree ==
    lastOp.name \in Creates =>
        LET plain == IF lastOp.name = "create_evm" THEN evm ELSE twin
            insp  == IF lastOp.name = "create_evm" THEN twin ELSE evm
        IN  /\ plain.inner.ctx = insp.inner.ctx
            /\ plain.inner.ctx.block = lastOp.arg.input.block_env
            /\ plain.inner.ctx.cfg = MonadCfgEnv_from(lastOp.arg.input.cfg_env)
            /\ plain.inner.ctx.journaled_state.database = lastOp.arg.db
            /\ plain.inner.precompiles = insp.inner.precompiles
            /\ plain.inner.precompiles =
                 new_with_spec(lastOp.arg.input.cfg_env.spec)
            /\ plain.inner.inspector = NoOpInspector
            /\ insp.inner.inspector = lastOp.arg.inspector
            /\ plain.inspect = FALSE
            /\ insp.inspect = TRUE

\* a session just built with a caller's handle, on the second block
\* environment and the second protocol identifier
Wit_C4_FactoryPathsAgree ==
    /\ lastOp.name = "create_evm_with_inspector"
    /\ evm.inner.inspector.kind = "Handle"
    /\ evm.inner.ctx.block.number = 1
    /\ evm.inner.precompiles = new_with_spec("SPEC_B")
    /\ twin.inner.inspector = NoOpInspector

\* C5: transact_raw and transact_system_call invoke the engine once and
\* return what it returned: an error stays that error, a halt reason stays
\* an Ok outcome.
Thm_C5_ErrorPassThrough ==
    lastOp.name \in Executes =>
        /\ Len(calls) = 1
        /\ ret = calls[1].returned
        /\ (calls[1].returned.tag = "Err" => ret.tag = "Err")
        /\ (calls[1].returned.val = "Halt" => ret.tag = "Ok")

\* the instrumented entry point returned a backend error
Wit_C5_ErrorPassThrough ==
    /\ lastOp.name = "transact_raw"
    /\ lastOp.arg.inspect
    /\ calls[1].returned = [tag |-> "Err", val |-> "Database"]
    /\ ret.tag = "Err"

\* C6: set_inspector_enabled(b) called again with the same b changes nothing
\* of the session; and once it has been called, the flag, and the entry
\* point of the next transact_raw, follow the last value set.
Thm_C6_FlagIdempotent ==
    /\ [][(/\ lastOp.name = "set_inspector_enabled"
           /\ lastOp'.name = "set_inspector_enabled"
           /\ lastOp'.arg = lastOp.arg) => evm' = evm]_vars
    /\ []((phase = "live" /\ made.lastSet.called) =>
             evm.inspect = made.lastSet.enabled)
    /\ []((lastOp.name = "transact_raw" /\ made.lastSet.called) =>
             calls[1].entry =
               IF made.lastSet.enabled THEN "inspect_tx" ELSE "transact")

\* set_inspector_enabled(true) twice on a session built by create_evm
Wit_C6_FlagIdempotent ==
    /\ lastOp.name = "set_inspector_enabled"
    /\ prevOp.name = "set_inspector_enabled"
    /\ lastOp.arg.enabled
    /\ prevOp.arg.enabled
    /\ evm.inspect
    /\ evm.inner.inspector = NoOpInspector

\* C7: set_inspector_enabled changes the flag only: the inspector, the
\* backend, the block, the configuration and the precompile set stay.
Thm_C7_FlagOnly ==
    [][lastOp'.name = "set_inspector_enabled" => evm'.inner = evm.inner]_vars

\* instrumentation disabled and then enabled again, the caller's handle
\* still in place
Wit_C7_FlagOnly ==
    /\ lastOp.name = "set_inspector_enabled"
    /\ prevOp.name = "set_inspector_enabled"
    /\ lastOp.arg.enabled
    /\ ~prevOp.arg.enabled
    /\ evm.inner.inspector.kind = "Handle"

\* C8: components() returns the backend, inspector and precompile set the
\* engine runs on, and a value written through components_mut is the one
\* the next engine call runs on, the next components() returns and, for the
\* backend, the one finish returns.
Thm_C8_ComponentsAreTheEngines ==
    /\ lastOp.name = "components" =>
         /\ ret.db = evm.inner.ctx.journaled_state.database
         /\ ret.inspector = evm.inner.inspector
         /\ ret.precompiles = evm.inner.precompiles
    /\ prevOp.name = "components_mut" =>
         /\ lastOp.name \in Executes =>
              calls[1][prevOp.arg.field] = prevOp.arg.value
         /\ lastOp.name = "components" =>
              ret[prevOp.arg.field] = prevOp.arg.value
         /\ (lastOp.name = "finish" /\ prevOp.arg.field = "db") =>
              ret.db = prevOp.arg.value

\* a backend written through components_mut, different from the one the
\* session was holding, seen by the transaction that follows
Wit_C8_ComponentsAreTheEngines ==
    /\ lastOp.name = "transact_raw"
    /\ prevOp.name = "components_mut"
    /\ prevOp.arg.field = "db"
    /\ prevOp.arg.value = 1
    /\ calls[1].db = 1

Thm_C10_SystemCallIgnoresFlag ==
    lastOp.name = "transact_system_call" =>
        /\ Len(calls) = 1
        /\ calls[1].entry = "system_call_with_caller"
        /\ calls[1].args = lastOp.arg.sys
        /\ evm.inspect = lastOp.arg.inspect

\* a system call on a session with the flag set and a caller's handle
Wit_C10_SystemCallIgnoresFlag ==
    /\ lastOp.name = "transact_system_call"
    /\ lastOp.arg.inspect
    /\ evm.inspect
    /\ evm.inner.inspector.kind = "Handle"

=============================================================================
